---- MODULE Spec2Model ----
(***************************************************************************)
(* Secure_RAG_Research: the chaotic key generator (src/src/chaos_engine.py) *)
(* and the vector transform engine (src/src/secure_rag.py).                 *)
(*                                                                          *)
(* Numbers.  The program computes in float64.  The model computes exactly:  *)
(*   - a chaotic value x in [0,1] is the fixed-point integer x*Scale, and   *)
(*     one step of the logistic map rounds down to that grid;               *)
(*   - an array holds integers `data` and one positive integer `den`, and   *)
(*     stands for the real array data / sqrt(den).  A plaintext array has   *)
(*     den = 1; the orthogonal factor of a QR decomposition has the         *)
(*     squared column norm as den;                                          *)
(*   - a Euclidean distance is held as its square, the exact rational       *)
(*     sq / den (np.sqrt is strictly increasing, so the order of the        *)
(*     distances is the order of their squares).                            *)
(* Indices are 0-based as in numpy; TLA+ sequences are 1-based, so the row  *)
(* with index i is data[i + 1].                                             *)
(***************************************************************************)
EXTENDS Integers, Sequences, FiniteSets, TLC

VARIABLES
    engines,   \* engine slot -> NoEngine or a SecureVectorEngine object
    last,      \* the last call made: its operation, arguments and outcome
    seqLog,    \* engine slot -> what generate_sequence returned, call by call
    database,      \* the database array the run works on
    query_vector,  \* the query array the run works on
    failed,    \* history: a call made since the last construction raised
    suite,     \* the process running run_validation.py
    children   \* suite step -> how the command of that step will end

vars == <<engines, last, seqLog, database, query_vector, failed, suite, children>>

----------------------------------------------------------------------------
(* Bounds of the model *)

\* resolution of the fixed-point grid of chaotic values: x stands for x/Scale
Scale == 10
\* most rows of a database or batch
MaxRows == 2
\* largest top_k
MaxTopK == 3
\* most generate_sequence calls logged per engine
MaxCalls == 2

\* dimensions an engine is built with (qr below is the closed form of the
\* Householder factorisation for sizes 1 and 2)
Dims == {1, 2}
\* column counts of the arrays passed in: each differs from some dimension
ColCounts == {1, 2}
\* seeds tried, on the grid: 0 and Scale are 0.0 and 1.0, outside (0,1)
Seeds == {0, 2, Scale}
\* lengths asked of generate_sequence: 1*1, 2 and 2*2
Lengths == {1, 2, 4}
\* entries of plaintext arrays
Vals == {0, 1}

NoEngine == [kind |-> "none"]
NoCall == [op |-> "none"]
NoData == [kind |-> "none"]
NoSuite == [pc |-> "none"]

----------------------------------------------------------------------------
(* numpy arrays *)

RECURSIVE SeqsOf(_, _)
\* all sequences of length n over S
SeqsOf(S, n) ==
    IF n = 0 THEN {<<>>}
    ELSE {Append(s, x) : s \in SeqsOf(S, n - 1), x \in S}

\* a 1-D array of shape (Len(v),)
Arr1(v, den) ==
    [kind |-> "ndarray", ndim |-> 1, shape |-> <<Len(v)>>, data |-> v, den |-> den]

\* a 2-D array of shape (Len(rows), m); data is the sequence of its rows
Arr2(rows, m, den) ==
    [kind |-> "ndarray", ndim |-> 2, shape |-> <<Len(rows), m>>, data |-> rows,
     den |-> den]

\* an exception raised by the call
Raise(exc) == [kind |-> "raise", exc |-> exc]

IsArray(a) == a.kind = "ndarray"
IsRaise(a) == a.kind = "raise"

\* number of columns: the last axis
NCols(a) == a.shape[a.ndim]

\* a.reshape(1, -1) of a 1-D array
Reshape1xN(a) == Arr2(<<a.data>>, a.shape[1], a.den)

\* a.flatten() of a 2-D array: its rows one after the other
RECURSIVE Concat(_)
Concat(rows) == IF rows = <<>> THEN <<>> ELSE Head(rows) \o Concat(Tail(rows))

Flatten(a) == Arr1(Concat(a.data), a.den)

\* seq.reshape((n, m)) of a flat sequence of n*m values, row-major
ReshapeRows(s, n, m) == [i \in 1..n |-> SubSeq(s, (i - 1) * m + 1, i * m)]

Dot(u, v) == LET RECURSIVE Sum(_)
                 Sum(j) == IF j = 0 THEN 0 ELSE u[j] * v[j] + Sum(j - 1)
             IN Sum(Len(u))

Column(rows, j) == [i \in 1..Len(rows) |-> rows[i][j]]

\* the row vector u times the matrix with rows `rows` and m columns
RowTimes(u, rows, m) == [j \in 1..m |-> Dot(u, Column(rows, j))]

----------------------------------------------------------------------------
(* ChaosEngine: src/src/chaos_engine.py *)

\* r = 3.99, the control parameter SecureVectorEngine passes
ControlParameter == [num |-> 399, den |-> 100]

\* ChaosEngine.__init__(r, x0): stores both, checks neither
ChaosEngine__init__(r, x0) == [r |-> r, x0 |-> x0]

\* one step of the map, r * x * (1 - x), on the grid: the exact product
\* rounded down, as float64 rounds the product to its own grid
LogisticStep(r, x) == (r.num * x * (Scale - x)) \div (r.den * Scale)

RECURSIVE IterateStoreFirst(_, _, _)
\* sequence[i] = current_x placed before the update: the seed comes out as
\* position 0 and every value one place late
IterateStoreFirst(r, current_x, n) ==
    IF n = 0 THEN <<>>
    ELSE <<current_x>> \o IterateStoreFirst(r, LogisticStep(r, current_x), n - 1)

RECURSIVE Iterate(_, _, _)
\* the loop of generate_sequence: n more values after current_x
Iterate(r, current_x, n) ==
    IF n = 0 THEN <<>>
    ELSE LET next_x == LogisticStep(r, current_x)
         IN <<next_x>> \o Iterate(r, next_x, n - 1)

\* a method is modelled by what it returns and what it leaves in self
Returned(self, ret) == [self |-> self, ret |-> ret]

\* the value the loop of generate_sequence starts from: current_x = self.x0
StartValue(self) == self.x0

\* self.x0 = current_x at the end of the loop: the generator keeps its
\* position, so the next call goes on where this one stopped
AfterSequenceCarry(self, sequence) ==
    [self EXCEPT !.x0 = IF sequence = <<>> THEN @ ELSE sequence[Len(sequence)]]

\* what generate_sequence leaves in self: it assigns no attribute
AfterSequence(self, sequence) == self

\* ChaosEngine.generate_sequence(length)
generate_sequence(self, length) ==
    LET sequence == Iterate(self.r, StartValue(self), length)
    IN Returned(AfterSequence(self, sequence), sequence)

Sign(a) == IF a >= 0 THEN 1 ELSE -1

\* the raw chaotic matrix returned in place of its orthogonal factor
qrSkipped(matrix, size) == Arr2(matrix, size, 1)

\* Q of np.linalg.qr(matrix), the LAPACK Householder factorisation
\* (geqrf, orgqr), for a size x size matrix with size in Dims.
\*   size 1: the reflector of a 1 x 1 block is the identity, Q = [[1]].
\*   size 2: with (a, c) the first column, Q = I when c = 0 (no reflection
\*     is needed), and otherwise Q is the reflection that takes (a, c) to
\*     (beta, 0), beta = -sign(a) * sqrt(a*a + c*c):
\*         Q = (1 / beta) * [[a, c], [c, -a]]
\*     held as the integer matrix -sign(a) * [[a, c], [c, -a]] over
\*     den = a*a + c*c.  The reflector of the trailing 1 x 1 block is the
\*     identity.
qr(matrix, size) ==
    CASE size = 1 -> Arr2(<<<<1>>>>, 1, 1)
      [] size = 2 ->
            LET a == matrix[1][1]
                c == matrix[2][1]
                s == -Sign(a)
            IN IF c = 0
               THEN Arr2(<<<<1, 0>>, <<0, 1>>>>, 2, 1)
               ELSE Arr2(<<<<s * a, s * c>>, <<s * c, -(s * a)>>>>, 2, a * a + c * c)

\* _, Q = np.linalg.qr(matrix): the upper-triangular factor R = Q^T * matrix
\* kept in place of the orthogonal factor
FactorR(matrix, size) ==
    LET q == qr(matrix, size)
    IN Arr2([i \in 1..size |-> RowTimes(Column(q.data, i), matrix, size)], size, q.den)

\* Q, _ = np.linalg.qr(matrix)
FactorQ(matrix, size) == qr(matrix, size)

\* ChaosEngine.generate_orthogonal_matrix(size)
generate_orthogonal_matrix(self, size) ==
    LET total_elements == size * size
        called == generate_sequence(self, total_elements)
        matrix == ReshapeRows(called.ret, size, size)
    IN Returned(called.self, FactorQ(matrix, size))

----------------------------------------------------------------------------
(* SecureVectorEngine: src/src/secure_rag.py *)

\* SecureVectorEngine.__init__(secret_key, dimension): no check of either
SecureVectorEngine__init__(secret_key, dimension) ==
    LET engine == ChaosEngine__init__(ControlParameter, secret_key)
        called == generate_orthogonal_matrix(engine, dimension)
    IN [kind |-> "engine", secret_key |-> secret_key, dimension |-> dimension,
        engine |-> called.self, orthogonal_key |-> called.ret]

\* a @ b with the columns of a cut or filled with zeros to the rows of b:
\* a product that coerces its left operand instead of raising
MatMulCoerce(a, b) ==
    LET fit(u) == [j \in 1..b.shape[1] |-> IF j <= Len(u) THEN u[j] ELSE 0]
    IN IF a.ndim = 1
       THEN Arr1(RowTimes(fit(a.data), b.data, b.shape[2]), a.den * b.den)
       ELSE Arr2([i \in 1..a.shape[1] |-> RowTimes(fit(a.data[i]), b.data, b.shape[2])],
                 b.shape[2], a.den * b.den)

\* a @ b for a 1-D or 2-D and b 2-D: numpy raises ValueError when the last
\* axis of a and the first axis of b differ; a 1-D a is a row and the
\* result is 1-D again
MatMul(a, b) ==
    IF NCols(a) # b.shape[1]
    THEN Raise("ValueError")
    ELSE IF a.ndim = 1
         THEN Arr1(RowTimes(a.data, b.data, b.shape[2]), a.den * b.den)
         ELSE Arr2([i \in 1..a.shape[1] |-> RowTimes(a.data[i], b.data, b.shape[2])],
                   b.shape[2], a.den * b.den)

\* SecureVectorEngine.encrypt_batch(vectors)
encrypt_batch(self, vectors) == MatMul(vectors, self.orthogonal_key)

\* what encrypt_batch leaves in self: it assigns no attribute
AfterEncryptBatch(self, vectors) == self

\* self.dimension = vector.shape[-1]: the engine rebound to the vector given
AfterEncryptSingleRebind(self, vector) == [self EXCEPT !.dimension = NCols(vector)]

\* what encrypt_single leaves in self: it assigns no attribute (vector is
\* rebound locally, reshape returns a new array)
AfterEncryptSingle(self, vector) == self

\* the product returned as it is, still of shape (1, dimension)
KeepShape(encrypted) == encrypted

\* encrypted.flatten() when the product was computed
FlattenResult(encrypted) == IF IsRaise(encrypted) THEN encrypted ELSE Flatten(encrypted)

\* SecureVectorEngine.encrypt_single(vector)
encrypt_single(self, vector) ==
    LET v2 == IF vector.ndim = 1 THEN Reshape1xN(vector) ELSE vector
        encrypted == MatMul(v2, self.orthogonal_key)
    IN FlattenResult(encrypted)

\* the length of one axis of a - b under numpy broadcasting, or -1 when the
\* two lengths are neither equal nor one of them 1
BroadcastLen(n, m) ==
    IF n = m THEN n ELSE IF n = 1 THEN m ELSE IF m = 1 THEN n ELSE -1

\* element (i, j) of a 2-D array stretched by broadcasting
Stretched(a, i, j) ==
    a.data[IF a.shape[1] = 1 THEN 1 ELSE i][IF a.shape[2] = 1 THEN 1 ELSE j]

\* search, lines 80-88: the query made 2-D, diff = database - query with
\* numpy broadcasting (ValueError when the shapes do not broadcast),
\* sq_dist = sum(diff ** 2, axis=1), distances = sqrt(sq_dist).
\* The result holds the squares sq_dist over den: row i is at distance
\* sqrt(sq[i + 1] / den).  The two operands are over the same den.
Distances(encrypted_query, encrypted_database) ==
    LET q == IF encrypted_query.ndim = 1 THEN Reshape1xN(encrypted_query)
             ELSE encrypted_query
        db == encrypted_database
        n == BroadcastLen(db.shape[1], q.shape[1])
        m == BroadcastLen(db.shape[2], q.shape[2])
        diff(i, j) == Stretched(db, i, j) - Stretched(q, i, j)
        RECURSIVE SumSq(_, _)
        SumSq(i, j) == IF j = 0 THEN 0 ELSE diff(i, j) * diff(i, j) + SumSq(i, j - 1)
    IN IF n = -1 \/ m = -1
       THEN Raise("ValueError")
       ELSE [kind |-> "distances", sq |-> [i \in 1..n |-> SumSq(i, m)], den |-> db.den]

\* the orders of the indices 0..n-1, as sequences
Orders(n) ==
    {p \in [1..n -> 0..(n - 1)] : \A i, j \in 1..n : i # j => p[i] # p[j]}

\* p lists the rows by ascending distance
Ascending(distances, p) ==
    \A i \in 1..(Len(p) - 1) : distances.sq[p[i] + 1] <= distances.sq[p[i + 1] + 1]

\* np.argsort(-distances): the rows by descending distance
argsortDescending(distances) ==
    {p \in Orders(Len(distances.sq)) :
        \A i \in 1..(Len(p) - 1) : distances.sq[p[i] + 1] >= distances.sq[p[i + 1] + 1]}

\* np.argsort(distances): the default kind is quicksort, which is not
\* stable, so between rows at equal distance any order can come out
argsort(distances) ==
    {p \in Orders(Len(distances.sq)) : Ascending(distances, p)}

\* s[:k - 1]: an off-by-one in the slice
SliceShort(s, k) == SubSeq(s, 1, IF k - 1 < Len(s) THEN k - 1 ELSE Len(s))

\* s[:k] for k >= 0
Slice(s, k) == SubSeq(s, 1, IF k < Len(s) THEN k ELSE Len(s))

\* distances[:len(top_indices)]: the first distances, not the nearest rows
TakeFirstDistances(distances, top_indices) ==
    [i \in 1..Len(top_indices) |-> distances.sq[i]]

\* distances[top_indices]
TakeDistances(distances, top_indices) ==
    [i \in 1..Len(top_indices) |-> distances.sq[top_indices[i] + 1]]

\* search, lines 94-97, given what argsort returned
TopK(distances, sorted_indices, top_k) ==
    LET top_indices == Slice(sorted_indices, top_k)
        top_distances == TakeDistances(distances, top_indices)
    IN [kind |-> "result", indices |-> top_indices, sq |-> top_distances,
        den |-> distances.den]

\* what search leaves in self: it reads and assigns no attribute
AfterSearch(self, encrypted_query, encrypted_database, top_k) == self

\* SecureVectorEngine.search(encrypted_query, encrypted_database, top_k):
\* every outcome the call can have
search(self, encrypted_query, encrypted_database, top_k) ==
    LET distances == Distances(encrypted_query, encrypted_database)
    IN IF IsRaise(distances)
       THEN {distances}
       ELSE {TopK(distances, sorted_indices, top_k) :
                sorted_indices \in argsort(distances)}

----------------------------------------------------------------------------
(* The inputs tried *)

Arrays1(m) == {Arr1(v, 1) : v \in SeqsOf(Vals, m)}

Arrays2(n, m) == {Arr2(rows, m, 1) : rows \in SeqsOf(SeqsOf(Vals, m), n)}

\* batches and databases: 0..MaxRows rows
Batches == UNION {Arrays2(n, m) : n \in 0..MaxRows, m \in ColCounts}

\* single vectors and queries: shape (m,) or (1, m)
Singles == UNION {Arrays1(m) \cup Arrays2(1, m) : m \in ColCounts}

EngineIds == {1, 2}

----------------------------------------------------------------------------
(* The state machine *)

\* a run's data is given when it starts: the plaintext (or, for a direct
\* search, already encrypted) database and query
Init ==
    /\ engines = [e \in EngineIds |-> NoEngine]
    /\ last = NoCall
    /\ seqLog = [e \in EngineIds |-> <<>>]
    /\ database \in Batches
    /\ query_vector \in Singles
    /\ failed = FALSE
    /\ suite = NoSuite
    /\ children = NoData

\* a run that only builds engines and draws sequences holds no data
InitKey ==
    /\ engines = [e \in EngineIds |-> NoEngine]
    /\ last = NoCall
    /\ seqLog = [e \in EngineIds |-> <<>>]
    /\ database = NoData
    /\ query_vector = NoData
    /\ failed = FALSE
    /\ suite = NoSuite
    /\ children = NoData

Built(e) == engines[e].kind = "engine"

\* engines[e] = SecureVectorEngine(secret_key, dimension)
Construct(e, secret_key, dimension) ==
    /\ engines' = [engines EXCEPT ![e] = SecureVectorEngine__init__(secret_key, dimension)]
    /\ seqLog' = [seqLog EXCEPT ![e] = <<>>]
    /\ last' = [op |-> "init", e |-> e, secret_key |-> secret_key,
                dimension |-> dimension]
    /\ failed' = FALSE
    /\ UNCHANGED <<database, query_vector, suite, children>>

\* engines[e].engine.generate_sequence(length)
GenerateSequence(e, length) ==
    /\ Built(e)
    /\ Len(seqLog[e]) < MaxCalls
    /\ LET called == generate_sequence(engines[e].engine, length)
       IN /\ engines' = [engines EXCEPT ![e].engine = called.self]
          /\ seqLog' = [seqLog EXCEPT
                          ![e] = Append(@, [length |-> length, ret |-> called.ret])]
          /\ last' = [op |-> "generate_sequence", e |-> e, length |-> length,
                      ret |-> called.ret]
    /\ UNCHANGED <<database, query_vector, failed, suite, children>>

\* the engine after a call; the arrays passed are not written either
\* (reshape and @ return new arrays)
Called(e, self_after, ret) ==
    /\ engines' = [engines EXCEPT ![e] = self_after]
    /\ failed' = (failed \/ IsRaise(ret))
    /\ UNCHANGED <<seqLog, database, query_vector, suite, children>>

\* engines[e].encrypt_batch(database)
EncryptBatch(e) ==
    /\ Built(e)
    /\ LET ret == encrypt_batch(engines[e], database)
       IN /\ last' = [op |-> "encrypt_batch", e |-> e, ret |-> ret]
          /\ Called(e, AfterEncryptBatch(engines[e], database), ret)

\* engines[e].encrypt_single(query_vector)
EncryptSingle(e) ==
    /\ Built(e)
    /\ LET ret == encrypt_single(engines[e], query_vector)
       IN /\ last' = [op |-> "encrypt_single", e |-> e, ret |-> ret]
          /\ Called(e, AfterEncryptSingle(engines[e], query_vector), ret)

\* engines[e].search(query_vector, database, top_k): the arrays are passed
\* as they are, encrypted elsewhere or not at all
Search(e, top_k) ==
    /\ Built(e)
    /\ \E ret \in search(engines[e], query_vector, database, top_k) :
          /\ last' = [op |-> "search", e |-> e, top_k |-> top_k, ret |-> ret]
          /\ Called(e, AfterSearch(engines[e], query_vector, database, top_k), ret)

\* what run_demo's steps 4 and 5 can end in: the database and the query are
\* encrypted by the same engine and the encrypted database is searched; an
\* exception of a step ends the run
run_demo(self, top_k) ==
    LET encrypted_db == encrypt_batch(self, database)
        encrypted_query == encrypt_single(self, query_vector)
    IN IF IsRaise(encrypted_db) THEN {encrypted_db}
       ELSE IF IsRaise(encrypted_query) THEN {encrypted_query}
       ELSE search(self, encrypted_query, encrypted_db, top_k)

\* the engine after run_demo's steps 4 and 5: after each call made, in turn
AfterRunDemo(self, top_k) ==
    LET self1 == AfterEncryptBatch(self, database)
        encrypted_db == encrypt_batch(self, database)
        self2 == AfterEncryptSingle(self1, query_vector)
        encrypted_query == encrypt_single(self1, query_vector)
    IN IF IsRaise(encrypted_db) THEN self1
       ELSE IF IsRaise(encrypted_query) THEN self2
       ELSE AfterSearch(self2, encrypted_query, encrypted_db, top_k)

RunDemo(e, top_k) ==
    /\ Built(e)
    /\ \E ret \in run_demo(engines[e], top_k) :
          /\ last' = [op |-> "run_demo", e |-> e, top_k |-> top_k, ret |-> ret]
          /\ Called(e, AfterRunDemo(engines[e], top_k), ret)

\* one engine, its encryption and search calls
Next ==
    \/ \E s \in Seeds, d \in Dims : Construct(1, s, d)
    \/ EncryptBatch(1)
    \/ EncryptSingle(1)
    \/ \E k \in 1..MaxTopK : Search(1, k)
    \/ \E k \in 1..MaxTopK : RunDemo(1, k)

Spec == Init /\ [][Next]_vars

\* two engines, their construction and their key generators
NextKey ==
    \/ \E e \in EngineIds, s \in Seeds, d \in Dims : Construct(e, s, d)
    \/ \E e \in EngineIds, length \in Lengths : GenerateSequence(e, length)

SpecKey == InitKey /\ [][NextKey]_vars

----------------------------------------------------------------------------
(* run_validation.py: the reproducibility suite *)

\* the four commands of main, by the place of main that runs them
Steps == {"setup", "test1", "test2", "report"}

\* what a command can do: end with a return code (negative when a signal
\* killed it), or not start at all (Popen raises OSError)
ReturnCodes == {0, 1, 2}
Outcomes == [kind : {"exit"}, returncode : ReturnCodes] \cup {[kind |-> "OSError"]}

\* the statement of main that follows a step
Following(step) ==
    CASE step = "setup" -> "test1"
      [] step = "test1" -> "test2"
      [] step = "test2" -> "report"
      [] step = "report" -> "finish"

description(step) ==
    CASE step = "setup" -> "[Setup: Checking Requirements]"
      [] step = "test1" -> "[Test 1: Isometry Verification (Synthetic)]"
      [] step = "test2" -> "[Test 2: Real-World Validation (MS MARCO)]"
      [] step = "report" -> "[Summary Report]"

\* the lines printed before check_call: run_command also prints the command
Header(step) ==
    IF step = "test2" THEN <<"", description(step)>>
    ELSE <<"", description(step), "Running: " \o step>>

\* except CalledProcessError: print FAIL without sys.exit(1), so that main
\* goes on with its next statement
AfterFailContinue(s, step) ==
    [s EXCEPT !.pc = Following(step), !.running = "none",
              !.stdout = @ \o <<"FAIL">>]

\* except CalledProcessError: print FAIL; sys.exit(1)
AfterFail(s, step) ==
    [s EXCEPT !.pc = "exited", !.running = "none",
              !.stdout = @ \o <<"FAIL">>, !.exit_status = <<1>>]

\* check_call returned: print PASS and go on with main
AfterPass(s, step) ==
    [s EXCEPT !.pc = Following(step), !.running = "none",
              !.stdout = @ \o <<"PASS">>]

\* an exception nothing catches: traceback on stderr, exit status 1
Uncaught(s) == [s EXCEPT !.pc = "exited", !.exit_status = <<1>>]

\* python run_validation.py, with what each command will do when run
InitSuite ==
    /\ engines = [e \in EngineIds |-> NoEngine]
    /\ last = NoCall
    /\ seqLog = [e \in EngineIds |-> <<>>]
    /\ database = NoData
    /\ query_vector = NoData
    /\ failed = FALSE
    /\ children \in [Steps -> Outcomes]
    /\ suite = [pc |-> "main", running |-> "none", started |-> <<>>,
                returned |-> <<>>, stdout |-> <<>>, exit_status |-> <<>>]

\* the three print calls that open main
Banner ==
    /\ suite.pc = "main"
    /\ suite' = [suite EXCEPT !.pc = "setup",
                     !.stdout = @ \o <<"====", "SECURE RAG - REPRODUCIBILITY SUITE", "====">>]
    /\ UNCHANGED <<engines, last, seqLog, database, query_vector, failed, children>>

\* the header lines, then check_call starts the command of the step
Start(step) ==
    /\ suite.pc = step
    /\ suite.running = "none"
    /\ LET printed == [suite EXCEPT !.stdout = @ \o Header(step)]
       IN suite' = IF children[step].kind = "OSError"
                   THEN Uncaught(printed)
                   ELSE [printed EXCEPT !.running = step,
                                        !.started = Append(@, step)]
    /\ UNCHANGED <<engines, last, seqLog, database, query_vector, failed, children>>

\* the command ends: check_call returns on code 0 and raises
\* CalledProcessError on any other
Complete(step) ==
    /\ suite.running = step
    /\ LET returncode == children[step].returncode
           waited == [suite EXCEPT !.returned = Append(@, returncode)]
       IN suite' = IF returncode = 0 THEN AfterPass(waited, step)
                   ELSE AfterFail(waited, step)
    /\ UNCHANGED <<engines, last, seqLog, database, query_vector, failed, children>>

\* the last two print calls; main returns and the interpreter exits with 0
Finish ==
    /\ suite.pc = "finish"
    /\ suite' = [suite EXCEPT !.pc = "returned",
                     !.stdout = @ \o <<"", "[Done] Verification Complete.">>,
                     !.exit_status = <<0>>]
    /\ UNCHANGED <<engines, last, seqLog, database, query_vector, failed, children>>

NextSuite ==
    \/ Banner
    \/ \E step \in Steps : Start(step)
    \/ \E step \in Steps : Complete(step)
    \/ Finish

SpecSuite == InitSuite /\ [][NextSuite]_vars

----------------------------------------------------------------------------
(* Properties of search *)

Min(a, b) == IF a < b THEN a ELSE b

\* the last call was a search, alone or as the last step of run_demo
SearchCalled == last.op \in {"search", "run_demo"}

\* ... and it returned (indices, distances)
SearchReturned == SearchCalled /\ last.ret.kind = "result"

\* the arrays the last search was given
SearchedQuery ==
    IF last.op = "search" THEN query_vector
    ELSE encrypt_single(engines[last.e], query_vector)

SearchedDatabase ==
    IF last.op = "search" THEN database
    ELSE encrypt_batch(engines[last.e], database)

\* the distance of every database row to the query, in the last search
SearchedDistances == Distances(SearchedQuery, SearchedDatabase)

\* N, the number of database rows
NRows == database.shape[1]

\* C1: search returns exactly min(top_k, N) results, indices and distances
\* alike, and when the query and the database have the same number of
\* columns it raises nothing, also when top_k > N (it then returns all N).
C1_SearchReturnsMinTopKN ==
    SearchCalled =>
        /\ last.ret.kind = "result" =>
              /\ Len(last.ret.indices) = Min(last.top_k, NRows)
              /\ Len(last.ret.sq) = Min(last.top_k, NRows)
        /\ (last.op = "search" /\ NCols(query_vector) = NCols(database)) =>
              last.ret.kind = "result"

C1_Witness ==
    /\ last.op = "search"
    /\ NRows = MaxRows
    /\ last.top_k > NRows
    /\ last.ret.kind = "result"
    /\ Len(last.ret.indices) = NRows

\* C2: the result is an exact top-k: the indices returned are pairwise
\* distinct row indices in 0..N-1, and no row left out is strictly nearer
\* to the query than a row returned.
C2_ExactTopK ==
    SearchReturned =>
        LET idx == last.ret.indices
            d == SearchedDistances.sq
            returned == {idx[i] : i \in 1..Len(idx)}
        IN /\ \A i \in 1..Len(idx) : idx[i] \in 0..(NRows - 1)
           /\ \A i, j \in 1..Len(idx) : i # j => idx[i] # idx[j]
           /\ \A out \in (0..(NRows - 1)) \ returned :
                 \A in \in returned : d[out + 1] >= d[in + 1]

C2_Witness ==
    /\ SearchReturned
    /\ NRows = MaxRows
    /\ last.top_k = 1
    /\ Len(last.ret.indices) = 1
    /\ \E out \in 0..(NRows - 1) :
          /\ \A i \in 1..Len(last.ret.indices) : last.ret.indices[i] # out
          /\ \A i \in 1..Len(last.ret.indices) :
                SearchedDistances.sq[out + 1] > last.ret.sq[i]

\* C3: the result is in ascending order of distance, position by position,
\* and the distance reported at a position is the distance of the row whose
\* index is reported at that position.
C3_AscendingAndAligned ==
    SearchReturned =>
        LET idx == last.ret.indices
            dist == last.ret.sq
        IN /\ \A i \in 1..(Len(dist) - 1) : dist[i] <= dist[i + 1]
           /\ \A i \in 1..Len(idx) : dist[i] = SearchedDistances.sq[idx[i] + 1]

C3_Witness ==
    /\ SearchReturned
    /\ Len(last.ret.sq) = 2
    /\ last.ret.sq[1] < last.ret.sq[2]
    /\ last.ret.indices[1] > last.ret.indices[2]

\* the rows listed by ascending distance, rows at equal distance by
\* ascending index: what a stable sort returns
StableOrder(distances) ==
    CHOOSE p \in argsort(distances) :
        \A i \in 1..(Len(p) - 1) :
            distances.sq[p[i] + 1] = distances.sq[p[i + 1] + 1] => p[i] < p[i + 1]

\* C4: rows at equal distance come out in index order, the lower index
\* first, and of a tie across the top_k cut the lower index is kept: the
\* result is the first top_k of the stable sort of the rows by distance.
C4_StableTieBreak ==
    SearchReturned =>
        last.ret.indices = Slice(StableOrder(SearchedDistances), last.top_k)

----------------------------------------------------------------------------
(* Properties of the engine's construction and encryption *)

Dimension(e) == engines[e].dimension

\* C5: encrypt_batch and encrypt_single, given vectors whose column count
\* is not the engine's dimension, end in the product's dimension-mismatch
\* error (ValueError) and return no ciphertext: nothing is cut or padded.
C5_EncryptRejectsMismatch ==
    /\ (last.op = "encrypt_batch" /\ NCols(database) # Dimension(last.e)) =>
          last.ret = Raise("ValueError")
    /\ (last.op = "encrypt_single" /\ NCols(query_vector) # Dimension(last.e)) =>
          last.ret = Raise("ValueError")

C5_Witness ==
    /\ last.op = "encrypt_batch"
    /\ NCols(database) = 1
    /\ Dimension(last.e) = 2
    /\ NRows = 2
    /\ IsRaise(last.ret)

\* C6: search, given a query or a database whose column count is not the
\* engine's dimension, raises a dimension-mismatch error and returns no
\* result.
C6_SearchRejectsMismatch ==
    (/\ last.op = "search"
     /\ \/ NCols(query_vector) # Dimension(last.e)
        \/ NCols(database) # Dimension(last.e)) =>
        IsRaise(last.ret)

\* C7: no engine exists whose seed is outside the open interval (0,1):
\* such a construction is rejected.
C7_InvalidSeedRejected ==
    \A e \in EngineIds :
        Built(e) => (0 < engines[e].secret_key /\ engines[e].secret_key < Scale)

\* row i (0-based) of a 2-D array, as a 1-D array
Row(a, i) == Arr1(a.data[i + 1], a.den)

\* two squared distances, each sq over den, are the same real number
SameDistance(sq1, den1, sq2, den2) == sq1 * den2 = sq2 * den1

\* C8: encryption keeps every distance.  After encrypt_batch, any two rows
\* of the ciphertext are as far apart as the two plaintext rows.  In
\* run_demo, where the database and the query are encrypted by the same
\* engine, every distance search reports is the plaintext distance of that
\* row to the plaintext query, and the ranking it returns is a ranking of
\* the plaintext database by plaintext distance.
C8_Isometry ==
    /\ (last.op = "encrypt_batch" /\ IsArray(last.ret)) =>
          \A i \in 0..(NRows - 1) :
              LET enc == Distances(Row(last.ret, i), last.ret)
                  plain == Distances(Row(database, i), database)
              IN \A j \in 1..NRows :
                    SameDistance(enc.sq[j], enc.den, plain.sq[j], plain.den)
    /\ (last.op = "run_demo" /\ last.ret.kind = "result") =>
          LET plain == Distances(query_vector, database)
              idx == last.ret.indices
          IN /\ \A i \in 1..Len(idx) :
                    SameDistance(last.ret.sq[i], last.ret.den,
                                 plain.sq[idx[i] + 1], plain.den)
             /\ \E p \in argsort(plain) : idx = Slice(p, last.top_k)

\* the engine's key is a proper reflection and the plaintext distances differ
C8_Witness ==
    /\ last.op = "run_demo"
    /\ last.ret.kind = "result"
    /\ engines[last.e].orthogonal_key.den > 1
    /\ Len(last.ret.sq) = 2
    /\ last.ret.sq[1] < last.ret.sq[2]
    /\ last.ret.indices[1] > last.ret.indices[2]

\* the one-row batch [v] of a vector v
AsBatch(v) == IF v.ndim = 1 THEN Reshape1xN(v) ELSE v

\* row 0 of what encrypt_batch returned, or the error it raised
Row0(ret) == IF IsRaise(ret) THEN ret ELSE Row(ret, 0)

\* C9: encrypt_single(v) is row 0 of encrypt_batch([v]): the same values,
\* in a 1-D array of the same length (and the same error when the length
\* of v is not the engine's dimension).
C9_SingleIsBatchRow0 ==
    last.op = "encrypt_single" =>
        last.ret = Row0(encrypt_batch(engines[last.e], AsBatch(query_vector)))

C9_Witness ==
    /\ last.op = "encrypt_single"
    /\ IsArray(last.ret)
    /\ last.ret.den > 1
    /\ last.ret.data[1] # last.ret.data[2]
    /\ last.ret.data[1] # 0

----------------------------------------------------------------------------
(* Properties of key generation *)

\* C10: key generation is deterministic.  Two engines built from the same
\* seed and dimension hold the same key matrix; any two generate_sequence
\* calls of the same length, on one engine or on two engines built from the
\* same seed, return the same sequence; and the sequence of length
\* dimension * dimension drawn after the construction is the one the key
\* was made of: nothing carries from one call to the next.
C10_Deterministic ==
    \A e1, e2 \in EngineIds :
        (Built(e1) /\ Built(e2) /\ engines[e1].secret_key = engines[e2].secret_key) =>
            /\ engines[e1].dimension = engines[e2].dimension =>
                  engines[e1].orthogonal_key = engines[e2].orthogonal_key
            /\ \A i \in 1..Len(seqLog[e1]), j \in 1..Len(seqLog[e2]) :
                  seqLog[e1][i].length = seqLog[e2][j].length =>
                      seqLog[e1][i].ret = seqLog[e2][j].ret
            /\ \A i \in 1..Len(seqLog[e1]) :
                  LET d == engines[e1].dimension
                  IN seqLog[e1][i].length = d * d =>
                        engines[e1].orthogonal_key =
                            qr(ReshapeRows(seqLog[e1][i].ret, d, d), d)

\* both engines built from the same seed in (0,1); the first was asked twice
\* for four values, the second once
C10_Witness ==
    /\ Built(1) /\ Built(2)
    /\ engines[1].secret_key = engines[2].secret_key
    /\ engines[1].secret_key \in 1..(Scale - 1)
    /\ engines[1].dimension = 2 /\ engines[2].dimension = 2
    /\ Len(seqLog[1]) = 2
    /\ seqLog[1][1].length = 4 /\ seqLog[1][2].length = 4
    /\ Len(seqLog[2]) >= 1
    /\ seqLog[2][1].length = 4

----------------------------------------------------------------------------
(* Properties of the engine's state across calls *)

CallOps == {"encrypt_batch", "encrypt_single", "search", "run_demo"}

\* what the call `call` can return on an engine just built from the seed
\* and dimension of self, on the run's data
FreshOutcomes(call, self) ==
    LET fresh == SecureVectorEngine__init__(self.secret_key, self.dimension)
    IN CASE call.op = "encrypt_batch" -> {encrypt_batch(fresh, database)}
         [] call.op = "encrypt_single" -> {encrypt_single(fresh, query_vector)}
         [] call.op = "search" -> search(fresh, query_vector, database, call.top_k)
         [] call.op = "run_demo" -> run_demo(fresh, call.top_k)

\* C11: every encrypt_batch, encrypt_single, search (and run_demo) call,
\* whether it returns or raises, leaves the engine as it was: key matrix,
\* seed, dimension and key generator; and what a call returns is what it
\* returns on an engine just built, whatever calls were made, and failed,
\* before it.
C11_CallsLeaveEngine ==
    [][last'.op \in CallOps =>
          /\ engines' = engines
          /\ database' = database /\ query_vector' = query_vector
          /\ last'.ret \in FreshOutcomes(last', engines[last'.e])]_vars

\* a search that returned rows after an earlier call on the engine raised
C11_Witness ==
    /\ failed
    /\ last.op = "search"
    /\ last.ret.kind = "result"
    /\ Len(last.ret.indices) = 2
    /\ engines[last.e] =
          SecureVectorEngine__init__(engines[last.e].secret_key, engines[last.e].dimension)

\* q, standing for data / sqrt(den), is a size x size orthogonal matrix:
\* Q^T * Q is the identity, that is data^T * data = den * identity
Orthogonal(q, size) ==
    /\ q.kind = "ndarray" /\ q.ndim = 2 /\ q.shape = <<size, size>>
    /\ q.den > 0
    /\ \A i, j \in 1..size :
          Dot(Column(q.data, i), Column(q.data, j)) = (IF i = j THEN q.den ELSE 0)

\* the raw matrix an engine's key was made of
RawMatrix(e) ==
    LET d == engines[e].dimension
    IN ReshapeRows(Iterate(ControlParameter, engines[e].secret_key, d * d), d, d)

\* C12: the key matrix of every constructed engine, which is what
\* generate_orthogonal_matrix(dimension) returned, is a dimension x
\* dimension orthogonal matrix, also when the raw chaotic matrix is
\* rank-deficient.
C12_KeyOrthogonal ==
    \A e \in EngineIds :
        Built(e) => Orthogonal(engines[e].orthogonal_key, engines[e].dimension)

\* one engine whose raw matrix is all zeros (rank 0) and one whose raw
\* matrix has full rank and whose key is a proper reflection
C12_Witness ==
    /\ Built(1) /\ Built(2)
    /\ engines[1].dimension = 2 /\ engines[2].dimension = 2
    /\ RawMatrix(1) = <<<<0, 0>>, <<0, 0>>>>
    /\ LET m == RawMatrix(2)
       IN m[1][1] * m[2][2] # m[1][2] * m[2][1]
    /\ engines[2].orthogonal_key.den > 1
    /\ Orthogonal(engines[1].orthogonal_key, 2)
    /\ Orthogonal(engines[2].orthogonal_key, 2)

----------------------------------------------------------------------------
(* The chaotic sequence *)

\* C13: generate_sequence(length) returns exactly length values; position 0
\* is r * seed * (1 - seed), not the seed, and each later position is the
\* map applied to the position before it, so position i is the (i+1)-th
\* iterate of the seed; for a seed in (0,1) every value lies in [0,1].
C13_SequenceIsIterates ==
    \A e \in EngineIds : \A c \in 1..Len(seqLog[e]) :
        LET length == seqLog[e][c].length
            sequence == seqLog[e][c].ret
            seed == engines[e].secret_key
        IN /\ Len(sequence) = length
           /\ length >= 1 => sequence[1] = LogisticStep(ControlParameter, seed)
           /\ \A i \in 2..length :
                 sequence[i] = LogisticStep(ControlParameter, sequence[i - 1])
           /\ seed \in 1..(Scale - 1) =>
                 \A i \in 1..length : sequence[i] \in 0..Scale

\* four values drawn from a seed in (0,1) that the map moves, and four
\* different values at that
C13_Witness ==
    /\ Built(1)
    /\ engines[1].secret_key \in 1..(Scale - 1)
    /\ Len(seqLog[1]) >= 1
    /\ seqLog[1][1].length = 4
    /\ Len(seqLog[1][1].ret) = 4
    /\ seqLog[1][1].ret[1] # engines[1].secret_key
    /\ Cardinality({seqLog[1][1].ret[i] : i \in 1..4}) = 4

----------------------------------------------------------------------------
(* The reproducibility suite *)

\* the order the suite is to run its steps in
SuiteOrder == <<"setup", "test1", "test2", "report">>

Printed(line) == \E i \in 1..Len(suite.stdout) : suite.stdout[i] = line

\* C14: the suite starts its steps in the order requirements setup,
\* synthetic test, public-data validation, summary report; a step is
\* started only when every step before it has ended with status 0; once a
\* step has not ended with 0 (or could not be started) the suite has exited
\* with status 1 and no later step was started; the closing line is printed
\* only when all four steps ended with 0.
C14_SuiteOrder ==
    LET n == Len(suite.started)
        m == Len(suite.returned)
    IN /\ n <= Len(SuiteOrder) /\ suite.started = SubSeq(SuiteOrder, 1, n)
       /\ m \in {n - 1, n} \cap 0..n
       /\ \A i \in 1..n : \A j \in 1..(i - 1) : suite.returned[j] = 0
       /\ \A j \in 1..m :
             suite.returned[j] # 0 =>
                 /\ n = j
                 /\ suite.exit_status = <<1>>
                 /\ suite.running = "none"
       /\ suite.exit_status = <<0>> =>
             /\ Printed("[Done] Verification Complete.")
             /\ m = Len(SuiteOrder)
       /\ (suite.exit_status # <<>> /\ m < Len(SuiteOrder)) => suite.exit_status = <<1>>
       /\ Printed("[Done] Verification Complete.") =>
             /\ m = Len(SuiteOrder)
             /\ \A j \in 1..m : suite.returned[j] = 0
             /\ suite.exit_status = <<0>>

\* the first two steps passed, the third ended with status 2, the suite
\* printed FAIL and exited with 1, the report never started although its
\* command would have passed
C14_Witness ==
    /\ suite.pc = "exited"
    /\ suite.started = <<"setup", "test1", "test2">>
    /\ suite.returned = <<0, 0, 2>>
    /\ suite.exit_status = <<1>>
    /\ suite.stdout[Len(suite.stdout)] = "FAIL"
    /\ children["report"] = [kind |-> "exit", returncode |-> 0]

====
